---- MODULE Spec2Model ----
(***************************************************************************)
(* CentroidTracker and MovingAverage of methyl-opencv-suite                *)
(* (src/mos/utils/classes/centroid_tracker.py, moving_average.py).         *)
(*                                                                         *)
(* Conventions                                                             *)
(*  - An OrderedDict is a sequence of <<key, value>> pairs in insertion    *)
(*    order; every per-track map of the tracker is its own variable.       *)
(*  - A numpy vector is a tuple of integers; python's 0-based row and      *)
(*    column indices are the 1-based positions of a sequence here.         *)
(*  - scipy's cdist returns Euclidean distances; the model keeps their     *)
(*    squares (integers).  Ordering, minima and the comparison with an     *)
(*    integer max_distance are the same on the squares.                    *)
(*  - A float vector that MovingAverage divides by the window is kept as   *)
(*    its exact numerators over the denominator `smoothed_vel_window`      *)
(*    (the window is a power of two, so the float division is exact).      *)
(***************************************************************************)
EXTENDS Integers, Sequences, FiniteSets, TLC

\* ------------------------------------------------------------------ bounds
MaxUpdates == 4          \* number of update calls explored
MaxDets == 2             \* detections per update call

\* ------------------------------------------------- constructor parameters
max_missing_count == 1
max_distance == 2
smoothed_vel_window == 2

\* Detections the caller may pass: (x_1, y_1, x_2, y_2).  Their centroids are
\* (1,1), (2,1) [2.5 truncated] and (1,3): distances 1, 2 and sqrt(5).
Boxes == { <<0, 0, 2, 2>>, <<1, 0, 4, 2>>, <<0, 2, 2, 4>> }

RECURSIVE SeqsUpTo(_, _)
SeqsUpTo(S, n) ==
    IF n = 0 THEN { << >> }
    ELSE LET shorter == SeqsUpTo(S, n - 1)
         IN  shorter \cup { Append(s, x) : s \in { t \in shorter : Len(t) = n - 1 }, x \in S }

Distinct(s) == \A i, j \in 1..Len(s) : s[i] = s[j] => i = j

\* a box that a detector may report twice in one call
Twin == <<1, 0, 4, 2>>

\* The detection lists of one call: up to MaxDets distinct boxes in any order,
\* or the box Twin reported twice.
Inputs ==
    { s \in SeqsUpTo(Boxes, MaxDets) : Distinct(s) }
        \cup { <<b, b>> : b \in { x \in {Twin} : MaxDets >= 2 } }

\* ------------------------------------------------------------ OrderedDict
\* a sequence built element by element, as a tuple
Tuple(f) == f \o << >>

Range(s) == { s[i] : i \in 1..Len(s) }

Keys(d) == Tuple([i \in 1..Len(d) |-> d[i][1]])
Values(d) == Tuple([i \in 1..Len(d) |-> d[i][2]])
KeySet(d) == { d[i][1] : i \in 1..Len(d) }
HasKey(d, k) == \E i \in 1..Len(d) : d[i][1] = k
GetItem(d, k) == d[CHOOSE i \in 1..Len(d) : d[i][1] = k][2]
\* variant: assigning to a key moves it to the end
SetItemMovesToEnd(d, k, v) == Append(SelectSeq(d, LAMBDA e : e[1] # k), <<k, v>>)

\* d[k] = v: a key already present keeps its place, a new key goes last
SetItem(d, k, v) ==
    IF HasKey(d, k)
    THEN [d EXCEPT ![CHOOSE i \in 1..Len(d) : d[i][1] = k] = <<k, v>>]
    ELSE Append(d, <<k, v>>)
DelItem(d, k) == SelectSeq(d, LAMBDA e : e[1] # k)

\* ------------------------------------------------------------------ numpy
Zeros(shape) == Tuple([i \in 1..shape |-> 0])
\* elementwise arithmetic; a vector of one component is broadcast
At(a, i) == IF Len(a) = 1 THEN a[1] ELSE a[i]
Wider(a, b) == IF Len(a) >= Len(b) THEN Len(a) ELSE Len(b)
VecSub(a, b) == Tuple([i \in 1..Wider(a, b) |-> At(a, i) - At(b, i)])
VecAdd(a, b) == Tuple([i \in 1..Wider(a, b) |-> At(a, i) + At(b, i)])

\* variant: the mean is rounded down
FloorHalf(s) == s \div 2

\* astype(int) of a float: the fractional part is dropped (toward zero)
TruncHalf(s) == IF s >= 0 THEN s \div 2 ELSE -((-s) \div 2)

\* midpoint_from_points([[x_1, y_1], [x_2, y_2]]): column means, cast to int
midpoint_from_points(r) == << TruncHalf(r[1] + r[3]), TruncHalf(r[2] + r[4]) >>

\* ---------------------------------------------------------- MovingAverage
None == << >>

\* collections.deque(maxlen=...)
DequeAppend(dq, maxlen, x) ==
    IF Len(dq) < maxlen THEN Append(dq, x) ELSE Append(Tail(dq), x)
DequeAppendLeft(dq, maxlen, x) ==
    IF Len(dq) < maxlen THEN <<x>> \o dq ELSE <<x>> \o SubSeq(dq, 1, Len(dq) - 1)

MA_initialise(h, entry) ==
    [h EXCEPT !.data_shape = <<Len(entry)>>,
              !.entry_deque = DequeAppendLeft(Tuple([i \in 1..h.window |-> Zeros(Len(entry))]),
                                              h.window, entry),
              !.average = Zeros(Len(entry)),
              !.init = TRUE]

MovingAverage(window, initial_entry) ==
    LET h0 == [window |-> window, init |-> FALSE, entry_deque |-> None,
               average |-> None, data_shape |-> None]
    IN  IF initial_entry # None THEN MA_initialise(h0, initial_entry) ELSE h0

\* variant: any shape is accepted
ShapeMatchesAlways(h, entry) == TRUE

\* `assert entry.shape == self.data_shape`
ShapeMatches(h, entry) == <<Len(entry)>> = h.data_shape

\* MovingAverage.update raises (AssertionError) and changes nothing
MA_update_raises(h, entry) == h.init /\ ~ShapeMatches(h, entry)

\* variant: the newest entry is taken for the oldest
OldestIsLast(entry_deque) == entry_deque[Len(entry_deque)]

\* `self.entry_deque[0]`
Oldest(entry_deque) == entry_deque[1]

\* MovingAverage.update when it does not raise; `average` holds the
\* numerators of average * window
MA_update(h, entry) ==
    LET h1 == IF ~h.init THEN MA_initialise(h, entry) ELSE h
        oldest_entry == Oldest(h1.entry_deque)
    IN  [h1 EXCEPT !.average = VecAdd(h1.average, VecSub(entry, oldest_entry)),
                   !.entry_deque = DequeAppend(h1.entry_deque, h1.window, entry)]

\* -------------------------------------------------------- CentroidTracker
VARIABLES next_id, tracked_centroids, vels, smoothed_vels, smoothed_vel_handlers,
          confidences, rects, missing_count,
          calls,      \* number of update calls made so far
          issued,     \* every id register has handed out, in order
          unmatched,  \* per track: the latest consecutive calls that did not match it
          last,       \* what the latest update call did (its locals)
          config,     \* the parameters __init__ stored, None before construction
          other,      \* a second CentroidTracker instance, None when there is one
          ma,         \* a MovingAverage used on its own
          ma_trace,   \* its first sample, the samples update took, the latest call
          iterator,   \* an ImageIterator, None when there is none
          iter_trace  \* what the latest calls on the ImageIterator did

vars == << next_id, tracked_centroids, vels, smoothed_vels, smoothed_vel_handlers,
           confidences, rects, missing_count, calls, issued, unmatched, last,
           config, other, ma, ma_trace, iterator, iter_trace >>

tracker_vars == << next_id, tracked_centroids, vels, smoothed_vels,
                   smoothed_vel_handlers, confidences, rects, missing_count,
                   issued, unmatched, last >>

\* the tracker object as the methods see it, plus the trace of this call
Self == [next_id |-> next_id, tracked_centroids |-> tracked_centroids,
         vels |-> vels, smoothed_vels |-> smoothed_vels,
         smoothed_vel_handlers |-> smoothed_vel_handlers,
         confidences |-> confidences, rects |-> rects,
         missing_count |-> missing_count,
         path |-> "none", rects_in |-> << >>, input_centroids |-> << >>,
         centroid_ids |-> << >>, pairs |-> {},
         registered |-> << >>, deregistered |-> {},
         subscriptable |-> TRUE, error |-> "none"]

\* variant: the next id is taken from the number of tracks held
NextIdFromCount(T) == Len(T.tracked_centroids) + 1

\* variant: the counter advances by two
NextIdSkip(T) == T.next_id + 2

\* `self.next_id += 1`
NextId(T) == T.next_id + 1

\* variant: a new track gets a box at the place of the detection that made it
register_with_box(T, centroid) ==
    [T EXCEPT !.tracked_centroids = SetItem(@, T.next_id, centroid),
              !.missing_count = SetItem(@, T.next_id, 0),
              !.vels = SetItem(@, T.next_id, Zeros(Len(centroid))),
              !.smoothed_vels = SetItem(@, T.next_id, Zeros(Len(centroid))),
              !.smoothed_vel_handlers =
                  SetItem(@, T.next_id,
                          MovingAverage(smoothed_vel_window, Zeros(Len(centroid)))),
              !.confidences = SetItem(@, T.next_id, 0),
              !.rects = SetItem(@, T.next_id, centroid \o centroid),
              !.next_id = NextId(T),
              !.registered = Append(@, T.next_id)]

\* CentroidTracker.register(centroid)
register(T, centroid) ==
    [T EXCEPT !.tracked_centroids = SetItem(@, T.next_id, centroid),
              !.missing_count = SetItem(@, T.next_id, 0),
              !.vels = SetItem(@, T.next_id, Zeros(Len(centroid))),
              !.smoothed_vels = SetItem(@, T.next_id, Zeros(Len(centroid))),
              !.smoothed_vel_handlers =
                  SetItem(@, T.next_id,
                          MovingAverage(smoothed_vel_window, Zeros(Len(centroid)))),
              !.confidences = SetItem(@, T.next_id, 0),
              !.rects = SetItem(@, T.next_id, <<0, 0, 0, 0>>),
              !.next_id = NextId(T),
              !.registered = Append(@, T.next_id)]

\* variant: the bounding box of the track is left behind
deregister_keeps_rect(T, centroid_id) ==
    [T EXCEPT !.tracked_centroids = DelItem(@, centroid_id),
              !.missing_count = DelItem(@, centroid_id),
              !.vels = DelItem(@, centroid_id),
              !.smoothed_vels = DelItem(@, centroid_id),
              !.smoothed_vel_handlers = DelItem(@, centroid_id),
              !.confidences = DelItem(@, centroid_id),
              !.deregistered = @ \cup {centroid_id}]

deregister(T, centroid_id) ==
    [T EXCEPT !.tracked_centroids = DelItem(@, centroid_id),
              !.missing_count = DelItem(@, centroid_id),
              !.vels = DelItem(@, centroid_id),
              !.smoothed_vels = DelItem(@, centroid_id),
              !.smoothed_vel_handlers = DelItem(@, centroid_id),
              !.confidences = DelItem(@, centroid_id),
              !.rects = DelItem(@, centroid_id),
              !.deregistered = @ \cup {centroid_id}]

\* variants: the threshold is reached one miss early / one miss late
IsStaleEarly(count) == count >= max_missing_count
IsStaleLate(count) == count > max_missing_count + 1

\* `missing_count[centroid_id] > self.max_missing_count`
IsStale(count) == count > max_missing_count

\* variant: the confidence is floored at zero
PenalisedClamped(confidence) == IF confidence - 1 < 0 THEN 0 ELSE confidence - 1

\* `self.confidences[centroid_id] -= 1`
Penalised(confidence) == confidence - 1

\* variant: a miss is not counted
MissedNot(count) == count

\* `self.missing_count[centroid_id] += 1`
Missed(count) == count + 1

\* variant: a miss does not cost confidence
MarkMissing_keeps_confidence(T, centroid_id) ==
    LET T1 == [T EXCEPT !.missing_count =
                            SetItem(@, centroid_id, Missed(GetItem(@, centroid_id)))]
    IN  IF IsStale(GetItem(T1.missing_count, centroid_id))
        THEN deregister(T1, centroid_id)
        ELSE T1

\* variant: a miss also forgets the track's last velocity
MarkMissing_resets_velocity(T, centroid_id) ==
    LET T1 == [T EXCEPT !.missing_count =
                            SetItem(@, centroid_id, Missed(GetItem(@, centroid_id))),
                        !.confidences =
                            SetItem(@, centroid_id, Penalised(GetItem(@, centroid_id))),
                        !.vels = SetItem(@, centroid_id, Zeros(2))]
    IN  IF IsStale(GetItem(T1.missing_count, centroid_id))
        THEN deregister(T1, centroid_id)
        ELSE T1

\* body of both "mark missing" loops
MarkMissing(T, centroid_id) ==
    LET T1 == [T EXCEPT !.missing_count =
                            SetItem(@, centroid_id, Missed(GetItem(@, centroid_id))),
                        !.confidences =
                            SetItem(@, centroid_id, Penalised(GetItem(@, centroid_id)))]
    IN  IF IsStale(GetItem(T1.missing_count, centroid_id))
        THEN deregister(T1, centroid_id)
        ELSE T1

RECURSIVE MarkMissingAll(_, _)
MarkMissingAll(T, ids) ==
    IF ids = << >> THEN T
    ELSE MarkMissingAll(MarkMissing(T, Head(ids)), Tail(ids))

RECURSIVE RegisterAll(_, _)
RegisterAll(T, centroids) ==
    IF centroids = << >> THEN T
    ELSE RegisterAll(register(T, Head(centroids)), Tail(centroids))

\* scipy.spatial.distance.cdist, squared
Dist2(a, b) == (a[1] - b[1]) * (a[1] - b[1]) + (a[2] - b[2]) * (a[2] - b[2])
cdist(A, B) ==
    Tuple([i \in 1..Len(A) |-> Tuple([j \in 1..Len(B) |-> Dist2(A[i], B[j])])])

SetMin(S) == CHOOSE m \in S : \A x \in S : m <= x
\* D.min(axis=1)
RowMin(D) == Tuple([row \in 1..Len(D) |-> SetMin(Range(D[row]))])
\* variant: per row, the last column that holds the row's minimum
ArgMinLast(D) ==
    Tuple([row \in 1..Len(D) |->
              LET m == SetMin(Range(D[row]))
              IN  -SetMin({ -j : j \in { i \in 1..Len(D[row]) : D[row][i] = m } })])

\* D.argmin(axis=1): per row, the first column that holds the row's minimum
ArgMin(D) ==
    Tuple([row \in 1..Len(D) |->
              LET m == SetMin(Range(D[row]))
              IN  SetMin({ j \in 1..Len(D[row]) : D[row][j] = m })])

\* a.argsort(), over the positions S of a: numpy's default sort is not stable,
\* so positions with equal values may come out in either order
RECURSIVE ArgSorts(_, _)
ArgSorts(a, S) ==
    IF S = {} THEN { << >> }
    ELSE LET m == SetMin({ a[i] : i \in S })
         IN  UNION { { <<i>> \o t : t \in ArgSorts(a, S \ {i}) } :
                     i \in { j \in S : a[j] = m } }

\* variants: the comparison is inverted / the gate is missing
TooFarInverted(d2) == d2 < max_distance * max_distance
TooFarNever(d2) == FALSE

\* `D[row, col] > self.max_distance`
TooFar(d2) == d2 > max_distance * max_distance

\* variant: the velocity points from the old centroid to the new one
VelocityReversed(old_centroid, new_centroid) == VecSub(new_centroid, old_centroid)

\* `self.tracked_centroids[centroid_id] - input_centroids[col]`
Velocity(old_centroid, new_centroid) == VecSub(old_centroid, new_centroid)

\* `self.confidences[centroid_id] += 2`
Rewarded(confidence) == confidence + 2

\* lines 138-167: a confirmed (track, detection) pair; `rects[col]` (line
\* 163) raises TypeError for a container that cannot be indexed, after lines
\* 148-160 have run
Confirm(T, centroid_id, col) ==
    LET current_velocity == Velocity(GetItem(T.tracked_centroids, centroid_id),
                                     T.input_centroids[col])
        handler == MA_update(GetItem(T.smoothed_vel_handlers, centroid_id),
                             current_velocity)
    IN  IF ~T.subscriptable
        THEN [T EXCEPT !.vels = SetItem(@, centroid_id, current_velocity),
                       !.smoothed_vel_handlers = SetItem(@, centroid_id, handler),
                       !.smoothed_vels = SetItem(@, centroid_id, handler.average),
                       !.tracked_centroids = SetItem(@, centroid_id, T.input_centroids[col]),
                       !.error = "TypeError"]
        ELSE
        [T EXCEPT !.vels = SetItem(@, centroid_id, current_velocity),
                  !.smoothed_vel_handlers = SetItem(@, centroid_id, handler),
                  !.smoothed_vels = SetItem(@, centroid_id, handler.average),
                  !.tracked_centroids = SetItem(@, centroid_id, T.input_centroids[col]),
                  !.rects = SetItem(@, centroid_id, T.rects_in[col]),
                  !.missing_count = SetItem(@, centroid_id, 0),
                  !.confidences = SetItem(@, centroid_id, Rewarded(GetItem(@, centroid_id))),
                  !.pairs = @ \cup { <<centroid_id, col>> }]

\* variant: only the rows are remembered
TakenRowsOnly(row, col, used_rows, used_cols) == row \in used_rows

\* `if row in used_rows or col in used_cols: continue`
Taken(row, col, used_rows, used_cols) == row \in used_rows \/ col \in used_cols

\* `for (row, col) in zip(rows, cols)` from position k on;
\* L = [T, used_rows, used_cols]
RECURSIVE MatchLoop(_, _, _, _, _)
MatchLoop(L, D, rows, cols, k) ==
    IF k > Len(rows) \/ L.T.error # "none" THEN L
    ELSE LET row == rows[k]
             col == cols[k]
         IN  IF Taken(row, col, L.used_rows, L.used_cols)
             THEN MatchLoop(L, D, rows, cols, k + 1)
             ELSE IF TooFar(D[row][col])
             THEN MatchLoop(L, D, rows, cols, k + 1)
             ELSE MatchLoop([T |-> Confirm(L.T, L.T.centroid_ids[row], col),
                             used_rows |-> L.used_rows \cup {row},
                             used_cols |-> L.used_cols \cup {col}],
                            D, rows, cols, k + 1)

\* ascending enumeration of a set of indices
RECURSIVE Ascending(_)
Ascending(S) ==
    IF S = {} THEN << >> ELSE <<SetMin(S)>> \o Ascending(S \ {SetMin(S)})

\* variants: the comparison is swapped / strict
MarksRowsMissingSwapped(nrows, ncols) == nrows <= ncols
MarksRowsMissingStrict(nrows, ncols) == nrows > ncols
\* variant: unmatched tracks are marked missing whatever the counts
MarksRowsMissingAlways(nrows, ncols) == TRUE
\* variant: unmatched detections are registered whatever the counts
MarksRowsMissingNever(nrows, ncols) == FALSE

\* `D.shape[0] >= D.shape[1]`: unmatched tracks are marked missing;
\* otherwise unmatched detections are registered
MarksRowsMissing(nrows, ncols) == nrows >= ncols

\* lines 172-189
HandleUnused(L, nrows, ncols) ==
    LET unused_rows == (1..nrows) \ L.used_rows
        unused_cols == (1..ncols) \ L.used_cols
    IN  IF L.T.error # "none" THEN L.T
        ELSE IF MarksRowsMissing(nrows, ncols)
        THEN MarkMissingAll(L.T, Tuple([i \in 1..Cardinality(unused_rows) |->
                                           L.T.centroid_ids[Ascending(unused_rows)[i]]]))
        ELSE RegisterAll(L.T, Tuple([i \in 1..Cardinality(unused_cols) |->
                                        L.T.input_centroids[Ascending(unused_cols)[i]]]))

\* lines 130-189 for one outcome `rows` of the argsort
Match(T, D, rows) ==
    LET cols == Tuple([k \in 1..Len(rows) |-> ArgMin(D)[rows[k]]])
        L == MatchLoop([T |-> T, used_rows |-> {}, used_cols |-> {}],
                       D, rows, cols, 1)
    IN  HandleUnused(L, Len(D), Len(T.input_centroids))

\* The outcomes of `rows = D.min(axis=1).argsort()` that can differ in what
\* the loop does.  A detection goes to the first row in `rows` that has it for
\* nearest, so among rows with equal minima only the order of those with the
\* same nearest detection counts: of the orders that differ in nothing else,
\* the one with the nearest detections ascending is kept.  (When the loop can
\* fail part way the order of all rows counts, and every order is kept.)
RowOrders(T, D) ==
    LET all == ArgSorts(RowMin(D), 1..Len(D))
    IN  IF ~T.subscriptable THEN all
        ELSE { r \in all : \A k \in 1..(Len(r) - 1) :
                   RowMin(D)[r[k]] = RowMin(D)[r[k + 1]]
                       => ArgMin(D)[r[k]] <= ArgMin(D)[r[k + 1]] }

\* lines 118-189: the matching path
MatchResults(T) ==
    LET T0 == [T EXCEPT !.path = "match",
                        !.centroid_ids = Keys(T.tracked_centroids)]
        D == cdist(Values(T.tracked_centroids), T.input_centroids)
    IN  { Match(T0, D, rows) : rows \in RowOrders(T0, D) }

\* `for (i, (x_1, y_1, x_2, y_2)) in enumerate(rects)` raises ValueError
Malformed(rs) == \E i \in 1..Len(rs) : Len(rs[i]) # 4

\* CentroidTracker.update(rects): the set of trackers it can leave behind
UpdateResults(T, rs) ==
    IF Len(rs) = 0
    THEN { MarkMissingAll([T EXCEPT !.path = "empty"], Keys(T.missing_count)) }
    ELSE IF Malformed(rs)
    THEN { [T EXCEPT !.path = "centroids", !.error = "ValueError"] }
    ELSE LET T0 == [T EXCEPT !.rects_in = rs,
                             !.input_centroids =
                                 Tuple([i \in 1..Len(rs) |-> midpoint_from_points(rs[i])])]
         IN  IF Len(T0.tracked_centroids) = 0
             THEN { RegisterAll([T0 EXCEPT !.path = "bootstrap"], T0.input_centroids) }
             ELSE MatchResults(T0)

TrackerInit ==
    /\ next_id = 0
    /\ tracked_centroids = << >>
    /\ vels = << >>
    /\ smoothed_vels = << >>
    /\ smoothed_vel_handlers = << >>
    /\ confidences = << >>
    /\ rects = << >>
    /\ missing_count = << >>
    /\ calls = 0
    /\ issued = << >>
    /\ unmatched = << >>
    /\ last = [path |-> "none", rects_in |-> << >>, input_centroids |-> << >>,
               centroid_ids |-> << >>, pairs |-> {},
               registered |-> << >>, deregistered |-> {}, error |-> "none"]

\* CentroidTracker.__init__ stores its parameters as they are given
CentroidTracker(mmc, md, window) ==
    [max_missing_count |-> mmc, max_distance |-> md, smoothed_vel_window |-> window]

Init ==
    /\ TrackerInit
    /\ config = CentroidTracker(max_missing_count, max_distance, smoothed_vel_window)
    /\ other = None
    /\ ma = None
    /\ ma_trace = None
    /\ iterator = None
    /\ iter_trace = None

\* update called with the container `arg`: its items in iteration order and
\* whether it can be indexed
update_call(arg) ==
    /\ calls < MaxUpdates
    /\ \E T \in UpdateResults([Self EXCEPT !.subscriptable = arg.subscriptable],
                               arg.items) :
        /\ next_id' = T.next_id
        /\ tracked_centroids' = T.tracked_centroids
        /\ vels' = T.vels
        /\ smoothed_vels' = T.smoothed_vels
        /\ smoothed_vel_handlers' = T.smoothed_vel_handlers
        /\ confidences' = T.confidences
        /\ rects' = T.rects
        /\ missing_count' = T.missing_count
        /\ issued' = issued \o T.registered
        /\ unmatched' =
               IF T.error # "none" THEN unmatched ELSE
               Tuple([i \in 1..Len(T.tracked_centroids) |->
                   LET id == T.tracked_centroids[i][1]
                   IN  IF id \in Range(T.registered) \/ id \in { p[1] : p \in T.pairs }
                       THEN <<id, 0>>
                       ELSE <<id, GetItem(unmatched, id) + 1>>])
        /\ last' = [path |-> T.path, rects_in |-> arg.items, error |-> T.error,
                    input_centroids |-> T.input_centroids,
                    centroid_ids |-> T.centroid_ids, pairs |-> T.pairs,
                    registered |-> T.registered, deregistered |-> T.deregistered]
    /\ calls' = calls + 1
    /\ UNCHANGED << config, other, ma, ma_trace, iterator, iter_trace >>

\* update called with a list of boxes
update(rs) == update_call([items |-> rs, subscriptable |-> TRUE])

Next == \E rs \in Inputs : update(rs)

Spec == Init /\ [][Next]_vars

\* --------------------------------------------- update called without end
\* The caller goes on calling update for ever.  To keep the states finite the
\* ids are recorded modulo IdSpace (a call is left out when two live tracks
\* would share a recorded id) and the confidences are recorded up to ConfCap
\* in size; update reads neither an id's value nor a confidence to decide
\* anything.  Of the call counter only the parity is kept, and the histories
\* are not kept.
IdSpace == 2 * MaxDets
ConfCap == 2

Wrap(id) == id % IdSpace
Saturate(c) == IF c > ConfCap THEN ConfCap ELSE IF c < 0 - ConfCap THEN 0 - ConfCap ELSE c
WrapKeys(map) == Tuple([i \in 1..Len(map) |-> <<Wrap(map[i][1]), map[i][2]>>])

live_update(rs) ==
    \E T \in UpdateResults(Self, rs) :
        /\ \A id \in Range(T.registered) :
               id \notin KeySet(tracked_centroids) /\ Wrap(id) \notin KeySet(tracked_centroids)
        /\ next_id' = Wrap(T.next_id)
        /\ tracked_centroids' = WrapKeys(T.tracked_centroids)
        /\ vels' = WrapKeys(T.vels)
        /\ smoothed_vels' = WrapKeys(T.smoothed_vels)
        /\ smoothed_vel_handlers' = WrapKeys(T.smoothed_vel_handlers)
        /\ confidences' = Tuple([i \in 1..Len(T.confidences) |->
                               <<Wrap(T.confidences[i][1]), Saturate(T.confidences[i][2])>>])
        /\ rects' = WrapKeys(T.rects)
        /\ missing_count' = WrapKeys(T.missing_count)
        /\ last' = [path |-> T.path, rects_in |-> rs, error |-> T.error,
                    input_centroids |-> T.input_centroids,
                    centroid_ids |-> T.centroid_ids, pairs |-> T.pairs,
                    registered |-> Tuple([i \in 1..Len(T.registered) |-> Wrap(T.registered[i])]),
                    deregistered |-> T.deregistered]
        /\ calls' = 1 - calls
        /\ UNCHANGED << issued, unmatched, config, other, ma, ma_trace, iterator, iter_trace >>

\* the detections of these calls lie at two places too far apart to match
\* one another, so a track is matched only where it stands
LiveInputs == { s \in Inputs : \A i \in 1..Len(s) : s[i] \in { Twin, <<0, 2, 2, 4>> } }

LiveNext == \E rs \in LiveInputs : live_update(rs)

\* a call has been made
Tick == calls' = 1 - calls

\* the premise of an infinite sequence of calls: every call is a step that
\* flips the parity, an empty update can always be made, and the caller does
\* not stop
LiveSpec == Init /\ [][LiveNext]_vars /\ WF_calls(Tick)

\* ------------------------------------------------ update calls that can fail
\* a detection of three components
Short == <<0, 0, 2>>

\* lists with a malformed detection first, last or alone
MalformedInputs ==
    { <<Short>> } \cup
    { s \in { <<Short, Twin>>, <<Twin, Short>> } : MaxDets >= 2 }

\* what a caller may pass: a list of boxes, a list with a malformed
\* detection, or a set of boxes (iterated in any order, not indexable)
Containers ==
    { [items |-> rs, subscriptable |-> TRUE] : rs \in Inputs \cup MalformedInputs }
        \cup { [items |-> rs, subscriptable |-> FALSE] :
                    rs \in { s \in Inputs : Distinct(s) /\ Len(s) >= 1 } }

AnyNext == \E arg \in Containers : update_call(arg)

AnySpec == Init /\ [][AnyNext]_vars

\* ----------------------------------------------------------- two instances
\* the calls made on two trackers: lists of distinct boxes at two places
PairInputs == { s \in LiveInputs : Distinct(s) }

\* variant: the id counter is one counter that all instances share
AttributesSharedCounter(own, peer) ==
    [own EXCEPT !.next_id = IF peer.next_id > @ THEN peer.next_id ELSE @]

\* __init__ binds every map and the counter to `self`; the methods read and
\* write nothing but these attributes
Attributes(own, peer) == own

\* the second instance as its methods see it
OtherSelf ==
    [Self EXCEPT !.next_id = Attributes(other, Self).next_id,
                 !.tracked_centroids = other.tracked_centroids,
                 !.vels = other.vels,
                 !.smoothed_vels = other.smoothed_vels,
                 !.smoothed_vel_handlers = other.smoothed_vel_handlers,
                 !.confidences = other.confidences,
                 !.rects = other.rects,
                 !.missing_count = other.missing_count]

\* two trackers constructed
PairInit ==
    /\ TrackerInit
    /\ config = CentroidTracker(max_missing_count, max_distance, smoothed_vel_window)
    /\ other = [next_id |-> 0, tracked_centroids |-> << >>, vels |-> << >>,
                smoothed_vels |-> << >>, smoothed_vel_handlers |-> << >>,
                confidences |-> << >>, rects |-> << >>, missing_count |-> << >>,
                calls |-> 0, issued |-> << >>]
    /\ ma = None
    /\ ma_trace = None
    /\ iterator = None
    /\ iter_trace = None

\* update called on the second instance
update_other(rs) ==
    /\ calls < MaxUpdates
    /\ \E T \in UpdateResults(OtherSelf, rs) :
        other' = [next_id |-> T.next_id, tracked_centroids |-> T.tracked_centroids,
                  vels |-> T.vels, smoothed_vels |-> T.smoothed_vels,
                  smoothed_vel_handlers |-> T.smoothed_vel_handlers,
                  confidences |-> T.confidences, rects |-> T.rects,
                  missing_count |-> T.missing_count,
                  calls |-> other.calls + 1,
                  issued |-> other.issued \o T.registered]
    /\ calls' = calls + 1
    /\ UNCHANGED << tracker_vars, config, ma, ma_trace, iterator, iter_trace >>

PairNext ==
    \/ \E rs \in PairInputs : update(rs)
    \/ \E rs \in PairInputs : update_other(rs)

PairSpec == PairInit /\ [][PairNext]_vars

\* ------------------------------------- boxes that reach left of the origin
\* Detections with corners on both sides of the origin: the corner sums are
\* (-3,-3), (-1,3) and (2,2), so the means are -1.5, -0.5, 1.5 and 1.
SignedBoxes == { <<-3, -3, 0, 0>>, <<-3, 0, 2, 3>>, <<0, 0, 2, 2>> }

SignedInputs == { s \in SeqsUpTo(SignedBoxes, MaxDets) : Distinct(s) }

SignedNext == \E rs \in SignedInputs : update(rs)

SignedSpec == Init /\ [][SignedNext]_vars

\* ------------------------------------------------------------ construction
MaxParam == 2            \* parameters are drawn from -MaxParam..MaxParam

ParamValues == (0 - MaxParam)..MaxParam

CtorInit ==
    /\ TrackerInit
    /\ config = None
    /\ other = None
    /\ ma = None
    /\ ma_trace = None
    /\ iterator = None
    /\ iter_trace = None

\* CentroidTracker(max_missing_count, max_distance, smoothed_vel_window)
construct(mmc, md, window) ==
    /\ config = None
    /\ config' = CentroidTracker(mmc, md, window)
    /\ UNCHANGED << tracker_vars, calls, other, ma, ma_trace, iterator, iter_trace >>

CtorNext == \E mmc \in ParamValues, md \in ParamValues, window \in ParamValues :
                construct(mmc, md, window)

CtorSpec == CtorInit /\ [][CtorNext]_vars

\* ------------------------------------------------ MovingAverage on its own
MaxWindow == 2           \* largest window explored

\* samples a caller may pass; the last one has another shape
Samples == { <<0, 0>>, <<1, 0>>, <<-1, 2>>, <<3>> }

\* MovingAverage(window, initial_entry)
MAInit ==
    /\ TrackerInit
    /\ config = None
    /\ other = None
    /\ iterator = None
    /\ iter_trace = None
    /\ \E window \in 1..MaxWindow, initial_entry \in Samples \cup {None} :
        /\ ma = MovingAverage(window, initial_entry)
        /\ ma_trace = [first |-> initial_entry, taken |-> << >>,
                       entry |-> None, error |-> "none", returned |-> None]

\* MovingAverage.update(entry)
ma_update(entry) ==
    /\ calls < MaxUpdates
    /\ IF MA_update_raises(ma, entry)
       THEN /\ ma' = ma
            /\ ma_trace' = [ma_trace EXCEPT !.entry = entry,
                                            !.error = "AssertionError",
                                            !.returned = None]
       ELSE /\ ma' = MA_update(ma, entry)
            /\ ma_trace' = [ma_trace EXCEPT !.entry = entry,
                                            !.error = "none",
                                            !.taken = Append(@, entry),
                                            !.returned = MA_update(ma, entry).average]
    /\ calls' = calls + 1
    /\ UNCHANGED << tracker_vars, config, other, iterator, iter_trace >>

MANext == \E entry \in Samples : ma_update(entry)

MASpec == MAInit /\ [][MANext]_vars

\* ----------------------------------------------------------- ImageIterator
MaxImages == 3           \* longest image list explored

\* what a caller may put in the list: a path to an image file or a matrix
Entries == { [type |-> "str", image |-> "a"], [type |-> "ndarray", image |-> "b"] }

ImageLists == SeqsUpTo(Entries, MaxImages)

\* scaling factors a caller may pass, in tenths: 0.5, 0.0 and None
Scalars == { [type |-> "float", tenths |-> 5], [type |-> "float", tenths |-> 0],
             [type |-> "NoneType", tenths |-> 0] }

\* cv2.imread(path): the matrix stored in that file
imread(path) == [type |-> "ndarray", image |-> path.image]

\* ImageIterator._load_image(image): the matrix, resized by 0.2 both ways
load_image(image) ==
    LET matrix == IF image.type = "str" THEN imread(image) ELSE image
    IN  [image |-> matrix.image, fx |-> 2, fy |-> 2]

\* `assert type(fx) is float` / `assert type(fy) is float`
set_images_raises(fx, fy) == fx.type # "float" \/ fy.type # "float"

\* ImageIterator.set_images(images, fx, fy), the asserts passed
set_images(it, images, fx, fy) ==
    [it EXCEPT !.fx = IF fx.tenths # 0 THEN fx.tenths ELSE @,
               !.fy = IF fy.tenths # 0 THEN fy.tenths ELSE @,
               !.images = Tuple([i \in 1..Len(images) |-> load_image(images[i])]),
               !.iter_counter = 0,
               !.end = Len(images) - 1]

\* ImageIterator(images): fx and fy default to 0.2
ImageIterator(images) ==
    set_images([fx |-> 2, fy |-> 2, images |-> << >>, iter_counter |-> 0, end |-> 0],
               images, [type |-> "float", tenths |-> 2], [type |-> "float", tenths |-> 2])

\* `self._images[self._iter_counter]` raises IndexError
get_raises(it) ==
    it.iter_counter >= Len(it.images) \/ it.iter_counter < 0 - Len(it.images)

\* ImageIterator.get(): a list index below zero counts from the end
get(it) ==
    IF it.iter_counter >= 0 THEN it.images[it.iter_counter + 1]
    ELSE it.images[Len(it.images) + it.iter_counter + 1]

\* variant: the counter wraps one image early
StepNextEarly(it) ==
    [it EXCEPT !.iter_counter = IF @ + 1 >= it.end THEN 0 ELSE @ + 1]

\* ImageIterator.__next__(), up to the call of get
StepNext(it) ==
    [it EXCEPT !.iter_counter = IF @ = it.end THEN 0 ELSE @ + 1]

\* ImageIterator.prev(), up to the call of get
StepPrev(it) ==
    [it EXCEPT !.iter_counter = IF @ = 0 THEN it.end ELSE @ - 1]

\* ImageIterator.__reversed__(): a copy that runs the other way
Reversed(it) ==
    [it EXCEPT !.images = Tuple([i \in 1..Len(@) |-> @[Len(@) + 1 - i]]),
               !.iter_counter = it.end - @]

\* the record of a call: the counter before it, the call before it and the
\* counter before that, the number of next() calls in a row (counted up to
\* the length of the list) and the counter they set out from
Traced(op, it, result) ==
    LET more == op = "next" /\ iter_trace.op = "next"
                    /\ iter_trace.streak < Len(it.images)
    IN  [op |-> op,
         before |-> it.iter_counter,
         prev_op |-> iter_trace.op,
         before2 |-> iter_trace.before,
         streak |-> IF more THEN iter_trace.streak + 1
                    ELSE IF op = "next" THEN 1 ELSE 0,
         origin |-> IF more THEN iter_trace.origin ELSE it.iter_counter,
         error |-> IF op \in {"next", "prev"} /\ get_raises(result)
                   THEN "IndexError" ELSE "none",
         returned |-> IF op \in {"next", "prev"} /\ ~get_raises(result)
                      THEN get(result) ELSE None]

Fresh ==
    [op |-> "init", before |-> 0, prev_op |-> "none", before2 |-> 0,
     streak |-> 0, origin |-> 0, error |-> "none", returned |-> None]

ImgInit ==
    /\ TrackerInit
    /\ config = None
    /\ other = None
    /\ ma = None
    /\ ma_trace = None
    /\ \E images \in ImageLists : iterator = ImageIterator(images)
    /\ iter_trace = Fresh

\* iterator.set_images(images, fx, fy)
set_images_call(images, fx, fy) ==
    /\ IF set_images_raises(fx, fy)
       THEN /\ iterator' = iterator
            /\ iter_trace' = [iter_trace EXCEPT !.op = "set_images",
                                                !.error = "AssertionError",
                                                !.returned = None]
       ELSE /\ iterator' = set_images(iterator, images, fx, fy)
            /\ iter_trace' = [Fresh EXCEPT !.op = "set_images"]
    /\ UNCHANGED << tracker_vars, calls, config, other, ma, ma_trace >>

\* next(iterator); on an empty list the counter runs away, followed this far
next_call ==
    /\ iterator.iter_counter < MaxImages
    /\ iterator' = StepNext(iterator)
    /\ iter_trace' = Traced("next", iterator, StepNext(iterator))
    /\ UNCHANGED << tracker_vars, calls, config, other, ma, ma_trace >>

\* iterator.prev()
prev_call ==
    /\ iterator.iter_counter > 0 - MaxImages
    /\ iterator' = StepPrev(iterator)
    /\ iter_trace' = Traced("prev", iterator, StepPrev(iterator))
    /\ UNCHANGED << tracker_vars, calls, config, other, ma, ma_trace >>

\* iterator = reversed(iterator)
reversed_call ==
    /\ iterator' = Reversed(iterator)
    /\ iter_trace' = Traced("reversed", iterator, Reversed(iterator))
    /\ UNCHANGED << tracker_vars, calls, config, other, ma, ma_trace >>

ImgNext ==
    \/ \E images \in ImageLists, fx, fy \in Scalars : set_images_call(images, fx, fy)
    \/ next_call
    \/ prev_call
    \/ reversed_call

ImgSpec == ImgInit /\ [][ImgNext]_vars

\* ================================================================= claims
Ids == KeySet(tracked_centroids)
\* the call just made (last') was given these detections / took this path
Called == calls' = calls + 1
PairedIds == { p[1] : p \in last'.pairs }
PairedCols == { p[2] : p \in last'.pairs }
\* the tracks the call just made counted as missing: all of them on the empty
\* path, the unpaired ones on the matching path when tracks >= detections
CountedMissing ==
    IF last'.path = "empty" THEN Ids
    ELSE IF last'.path = "match" /\ Len(tracked_centroids) >= Len(last'.rects_in)
         THEN Ids \ PairedIds
         ELSE {}
MaxDist2 == max_distance * max_distance

\* C1: the ids handed out by register are strictly increasing over the whole
\* life of a tracker, so the registered tracks have pairwise different ids and
\* a deregistered id is never handed out again.
C1_IdsStrictlyIncreasing ==
    /\ \A i, j \in 1..Len(issued) : i < j => issued[i] < issued[j]
    /\ Distinct(Keys(tracked_centroids))
    /\ Ids \subseteq Range(issued)
    /\ \A i \in 1..Len(issued) : issued[i] < next_id

\* C1 witness: every track was evicted and the tracker bootstrapped again
C1_Witness ==
    /\ last.path = "bootstrap"
    /\ Len(issued) > Len(last.registered)
    /\ Len(last.registered) >= 2

\* C2: after every update the seven per-track maps have the same key set.
C2_LockStep ==
    /\ KeySet(missing_count) = Ids
    /\ KeySet(vels) = Ids
    /\ KeySet(smoothed_vels) = Ids
    /\ KeySet(smoothed_vel_handlers) = Ids
    /\ KeySet(confidences) = Ids
    /\ KeySet(rects) = Ids

\* C2 witness: an update evicted a track while another one stayed
C2_Witness == last.deregistered # {} /\ Ids # {} /\ last.path = "match"

\* C3: a track leaves only in an update that counts it missing while its
\* missing_count is max_missing_count; a counted miss below the threshold
\* keeps it registered with missing_count one higher, and a counted miss at
\* the threshold removes it in that same call.
C3_EvictionThreshold ==
    [][Called =>
        \A id \in Ids :
            LET mc == GetItem(missing_count, id)
                gone == id \notin KeySet(tracked_centroids')
            IN  /\ gone => (id \in CountedMissing /\ mc = max_missing_count)
                /\ (id \in CountedMissing /\ mc < max_missing_count) =>
                       (~gone /\ GetItem(missing_count', id) = mc + 1)
                /\ (id \in CountedMissing /\ mc = max_missing_count) => gone]_vars

\* C3 witness: a track that had been missing max_missing_count times is evicted
C3_Witness == last.deregistered # {} /\ last.path = "empty" /\ calls = max_missing_count + 2

\* C4: between update calls every registered track has
\* 0 <= missing_count <= max_missing_count.
C4_MissingCountBounded ==
    \A i \in 1..Len(missing_count) :
        missing_count[i][2] >= 0 /\ missing_count[i][2] <= max_missing_count

\* C4 witness: a registered track sits exactly at the threshold
C4_Witness ==
    \E i \in 1..Len(missing_count) : missing_count[i][2] = max_missing_count

\* C5: an update with N >= 1 detections on a tracker without tracks registers
\* N tracks, one per detection in order, with consecutive ids (from 0 on a
\* fresh tracker), the detection's centroid, confidence 0, missing_count 0 and
\* zero velocities; nothing is paired.
C5_Bootstrap ==
    [][(Called /\ Len(tracked_centroids) = 0 /\ Len(last'.rects_in) >= 1) =>
        LET N == Len(last'.rects_in)
        IN  /\ Len(tracked_centroids') = N
            /\ \A i \in 1..N :
                /\ tracked_centroids'[i] =
                       <<next_id + i - 1, midpoint_from_points(last'.rects_in[i])>>
                /\ confidences'[i] = <<next_id + i - 1, 0>>
                /\ missing_count'[i] = <<next_id + i - 1, 0>>
                /\ vels'[i] = <<next_id + i - 1, <<0, 0>> >>
                /\ smoothed_vels'[i] = <<next_id + i - 1, <<0, 0>> >>
            /\ next_id' = next_id + N
            /\ calls = 0 => Keys(tracked_centroids') = [i \in 1..N |-> i - 1]
            /\ last'.pairs = {}]_vars

\* C5 witness: a bootstrap of two detections on a tracker that had tracks before
C5_Witness ==
    /\ last.path = "bootstrap"
    /\ Len(last.registered) = 2
    /\ last.registered[1] > 0
    /\ Len(tracked_centroids) = 2

\* C6: update([]) adds 1 to every missing_count and takes 1 from every
\* confidence, registers nothing, removes exactly the tracks whose
\* missing_count now exceeds max_missing_count and leaves centroid, bounding
\* box and both velocities of the others alone.
C6_EmptyUpdate ==
    [][(Called /\ Len(last'.rects_in) = 0) =>
        /\ next_id' = next_id
        /\ issued' = issued
        /\ KeySet(tracked_centroids') =
               { id \in Ids : GetItem(missing_count, id) + 1 <= max_missing_count }
        /\ \A id \in KeySet(tracked_centroids') :
            /\ GetItem(missing_count', id) = GetItem(missing_count, id) + 1
            /\ GetItem(confidences', id) = GetItem(confidences, id) - 1
            /\ GetItem(tracked_centroids', id) = GetItem(tracked_centroids, id)
            /\ GetItem(rects', id) = GetItem(rects, id)
            /\ GetItem(vels', id) = GetItem(vels, id)
            /\ GetItem(smoothed_vels', id) = GetItem(smoothed_vels, id)]_vars

\* C6 witness: an empty update removed one track and kept another, which has
\* been matched before
C6_Witness ==
    /\ last.path = "empty"
    /\ last.deregistered # {}
    /\ \E i \in 1..Len(rects) : rects[i][2] # <<0, 0, 0, 0>>

\* C7: a tracker holding one track that is given one detection nearer than
\* max_distance keeps exactly that id, registers nothing and moves the
\* track's centroid to the detection's centroid.
C7_IdentityStable ==
    [][(/\ Called
        /\ Len(tracked_centroids) = 1
        /\ Len(last'.rects_in) = 1
        /\ Dist2(tracked_centroids[1][2], midpoint_from_points(last'.rects_in[1]))
               < MaxDist2) =>
        /\ Keys(tracked_centroids') = Keys(tracked_centroids)
        /\ next_id' = next_id
        /\ tracked_centroids'[1][2] = midpoint_from_points(last'.rects_in[1])]_vars

\* C7 witness: the single track has followed a detection that moved
C7_Witness ==
    /\ Len(tracked_centroids) = 1
    /\ Len(last.rects_in) = 1
    /\ last.pairs # {}
    /\ vels[1][2] # <<0, 0>>
    /\ Dist2(vels[1][2], <<0, 0>>) < MaxDist2
    /\ issued = <<0>>
    /\ calls = MaxUpdates

\* C8: every confirmed pair is within max_distance; a track's centroid or
\* confidence gain always comes from a detection within max_distance of where
\* the track was; a detection farther than max_distance from every track is
\* paired with none; a lone detection at exactly max_distance from a lone
\* track is matched.
C8_DistanceGating ==
    [][(Called /\ last'.path = "match") =>
        /\ \A p \in last'.pairs :
               Dist2(GetItem(tracked_centroids, p[1]), last'.input_centroids[p[2]])
                   <= MaxDist2
        /\ \A id \in Ids \cap KeySet(tracked_centroids') :
               (\/ GetItem(confidences', id) > GetItem(confidences, id)
                \/ GetItem(tracked_centroids', id) # GetItem(tracked_centroids, id)
                \/ GetItem(rects', id) # GetItem(rects, id)) =>
               \E col \in 1..Len(last'.rects_in) :
                   /\ GetItem(tracked_centroids', id) = last'.input_centroids[col]
                   /\ Dist2(GetItem(tracked_centroids, id), last'.input_centroids[col])
                          <= MaxDist2
        /\ \A col \in 1..Len(last'.rects_in) :
               (\A id \in Ids :
                    Dist2(GetItem(tracked_centroids, id), last'.input_centroids[col])
                        > MaxDist2) => col \notin PairedCols
        /\ (/\ Len(tracked_centroids) = 1
            /\ Len(last'.rects_in) = 1
            /\ Dist2(tracked_centroids[1][2], last'.input_centroids[1]) = MaxDist2) =>
               last'.pairs = { <<tracked_centroids[1][1], 1>> }]_vars

\* C8 witness: a pair at exactly max_distance was confirmed while another
\* detection of the same call was too far from every track
C8_Witness ==
    /\ last.path = "match"
    /\ \E p \in last.pairs : Dist2(GetItem(vels, p[1]), <<0, 0>>) = MaxDist2
    /\ Cardinality(last.pairs) < Len(last.rects_in)

\* C9: on the matching path with more detections than tracks every unpaired
\* detection is registered, in column order, under a fresh id, and no track
\* is removed: tracks after = tracks before + detections - pairs.
C9_RegisterUnmatched ==
    [][(Called /\ last'.path = "match"
               /\ Len(last'.rects_in) > Len(tracked_centroids)) =>
        LET unpaired == Ascending((1..Len(last'.rects_in)) \ PairedCols)
            before == Len(tracked_centroids)
        IN  /\ Len(tracked_centroids') =
                   before + Len(last'.rects_in) - Cardinality(last'.pairs)
            /\ Cardinality(PairedCols) = Cardinality(last'.pairs)
            /\ Ids \subseteq KeySet(tracked_centroids')
            /\ \A i \in 1..Len(unpaired) :
                   tracked_centroids'[before + i] =
                       <<next_id + i - 1, last'.input_centroids[unpaired[i]]>>
            /\ \A i \in 1..Len(unpaired) : next_id + i - 1 \notin Range(issued)]_vars

\* C9 witness: one track, two detections, the first matched and the second
\* registered as a new id
C9_Witness ==
    /\ last.path = "match"
    /\ Len(last.centroid_ids) = 1
    /\ last.pairs = { <<last.centroid_ids[1], 1>> }
    /\ Len(last.registered) = 1
    /\ Len(tracked_centroids) = 2

\* C10: an update with at least one track and at least as many tracks as
\* (one or more) detections registers nothing and leaves next_id alone.
C10_NoRegistration ==
    [][(Called /\ Len(tracked_centroids) >= 1 /\ Len(last'.rects_in) >= 1
               /\ Len(tracked_centroids) >= Len(last'.rects_in)) =>
        /\ next_id' = next_id
        /\ issued' = issued
        /\ last'.registered = << >>
        /\ KeySet(tracked_centroids') \subseteq Ids]_vars

\* C10 witness: as many tracks as detections, one detection left unpaired and
\* dropped
C10_Witness ==
    /\ last.path = "match"
    /\ Len(last.centroid_ids) = Len(last.rects_in)
    /\ Cardinality(last.pairs) < Len(last.rects_in)
    /\ last.registered = << >>

\* C11: for every confirmed (track, detection) pair the track's velocity
\* becomes old centroid - new centroid, its smoothed velocity the average its
\* own MovingAverage holds after that velocity has replaced the oldest
\* entry, its centroid and bounding box those of the detection, its
\* missing_count 0, and its confidence 2 more than before.
C11_ConfirmedPair ==
    [][(Called /\ last'.path = "match") =>
        \A p \in last'.pairs :
            LET id == p[1]
                rect == last'.rects_in[p[2]]
                old == GetItem(tracked_centroids, id)
                new == midpoint_from_points(rect)
                v == << old[1] - new[1], old[2] - new[2] >>
                h == GetItem(smoothed_vel_handlers, id)
                h2 == GetItem(smoothed_vel_handlers', id)
            IN  /\ id \in Ids /\ id \in KeySet(tracked_centroids')
                /\ GetItem(vels', id) = v
                /\ h2.average = VecAdd(h.average, VecSub(v, h.entry_deque[1]))
                /\ h2.entry_deque = Tail(h.entry_deque) \o <<v>>
                /\ GetItem(smoothed_vels', id) = h2.average
                /\ GetItem(tracked_centroids', id) = new
                /\ GetItem(rects', id) = rect
                /\ GetItem(missing_count', id) = 0
                /\ GetItem(confidences', id) = GetItem(confidences, id) + 2]_vars

\* C11 witness: a track matched for the second time, with a detection that
\* has moved, while its previous velocity was not zero either
C11_Witness ==
    \E p \in last.pairs :
        /\ GetItem(vels, p[1]) # <<0, 0>>
        /\ GetItem(confidences, p[1]) >= 4
        /\ GetItem(smoothed_vels, p[1]) # GetItem(vels, p[1])
        /\ GetItem(smoothed_vels, p[1]) # <<0, 0>>

\* C12: confidence is never clamped: in every update a track that stays
\* registered gains exactly 2 if it is paired and loses exactly 1 if it is
\* counted missing, whatever its confidence was (so k matches in a row add
\* 2k, m counted misses in a row take m, and the value may drop below zero).
C12_ConfidenceUnclamped ==
    [][Called =>
        \A id \in Ids \cap KeySet(tracked_centroids') :
            LET before == GetItem(confidences, id)
                after == GetItem(confidences', id)
            IN  /\ id \in PairedIds => after = before + 2
                /\ id \in CountedMissing => after = before - 1
                /\ id \notin PairedIds \cup CountedMissing => after = before]_vars

\* C12 witness: one track has been matched three times in a row (confidence
\* 6) while another has gone below zero
C12_Witness ==
    /\ \E i \in 1..Len(confidences) : confidences[i][2] >= 6
    /\ \E i \in 1..Len(confidences) : confidences[i][2] < 0

\* C13: after every update the missing_count of every registered track is the
\* number of latest consecutive update calls that did not match it (0 if the
\* latest call matched or registered it), whichever branch those calls took.
C13_MissingCountIsUnmatchedStreak ==
    \A id \in Ids : GetItem(missing_count, id) = GetItem(unmatched, id)

\* C14: when update is called for ever with at most MaxDets detections per
\* call, a registered track is matched again or is deregistered: it cannot stay
\* registered and unmatched for ever; and while it stays unmatched its
\* missing_count does not decrease.
C14_EventualEviction ==
    /\ \A id \in 0..(IdSpace - 1) :
           (id \in Ids) ~> (id \notin Ids \/ id \in { p[1] : p \in last.pairs })
    /\ [][\A id \in (Ids \cap KeySet(tracked_centroids')) \ PairedIds :
              GetItem(missing_count', id) >= GetItem(missing_count, id)]_vars

\* C14 witness: a call on the matching path has deregistered an unmatched
\* track while it paired another, after the ids have gone round once
C14_Witness ==
    /\ last.path = "match"
    /\ last.deregistered # {}
    /\ last.pairs # {}
    /\ \E id \in Ids : id > next_id

\* ------------------------------------------------- claims on MovingAverage
RECURSIVE VecSum(_, _)
\* the sum of the vectors of a sequence, as a vector of `shape` components
VecSum(vs, shape) ==
    IF vs = << >> THEN Zeros(shape) ELSE VecAdd(Head(vs), VecSum(Tail(vs), shape))

LastN(vs, n) == SubSeq(vs, Len(vs) - n + 1, Len(vs))
Least(a, b) == IF a <= b THEN a ELSE b

\* every sample the instance was given, in arrival order
MAGiven == (IF ma_trace.first = None THEN << >> ELSE <<ma_trace.first>>) \o ma_trace.taken

\* C15: an initialised MovingAverage of window W holds exactly W entries and
\* W * average is the sum of the entries in the window, whatever its first
\* sample was.
C15_AverageIsWindowMean ==
    ma.init =>
        /\ Len(ma.entry_deque) = ma.window
        /\ ma.average = VecSum(ma.entry_deque, ma.data_shape[1])

\* C16: the window is the last W samples given, in arrival order, after W
\* zero fillers: the first sample is the newest entry once it is in.
C16_WindowIsLastSamples ==
    ma.init =>
        ma.entry_deque =
            LastN([i \in 1..ma.window |-> Zeros(ma.data_shape[1])] \o MAGiven, ma.window)

\* C17: for a MovingAverage of window W constructed with an all-zero first
\* sample, the k-th update (k >= 1) returns the sum of the last min(k, W)
\* samples divided by W.
C17_ZeroSeededReturn ==
    (/\ ma_trace.first # None
     /\ ma_trace.first = Zeros(Len(ma_trace.first))
     /\ Len(ma_trace.taken) >= 1
     /\ ma_trace.error = "none") =>
        ma_trace.returned =
            VecSum(LastN(ma_trace.taken, Least(Len(ma_trace.taken), ma.window)),
                   Len(ma_trace.first))

\* C17 witness: more updates than the window holds, so a sample has been
\* evicted, and the samples differ
C17_Witness ==
    /\ ma_trace.first = <<0, 0>>
    /\ ma.window = 2
    /\ ma_trace.taken = << <<1, 0>>, <<-1, 2>>, <<1, 0>> >>
    /\ ma_trace.returned = <<0, 2>>

\* C18: update on an initialised instance with a sample of another shape
\* fails, and the average, the window and the established shape stay as they
\* were.
C18_ShapeMismatchRejected ==
    [][(/\ Called
        /\ ma.init
        /\ <<Len(ma_trace'.entry)>> # ma.data_shape) =>
        /\ ma_trace'.error # "none"
        /\ ma'.average = ma.average
        /\ ma'.entry_deque = ma.entry_deque
        /\ ma'.data_shape = ma.data_shape
        /\ ma_trace'.taken = ma_trace.taken]_vars

\* C18 witness: a rejected sample on an instance whose average is not zero
C18_Witness ==
    /\ ma_trace.error = "AssertionError"
    /\ ma_trace.entry = <<3>>
    /\ ma.average \notin { <<0, 0>>, <<0>> }
    /\ Len(ma_trace.taken) >= 2

\* ---------------------------------------------------- claims on failing calls
\* C19: a CentroidTracker is never constructed with a non-positive
\* max_missing_count, max_distance or velocity window: construction fails, so
\* every constructed tracker holds positive values.
C19_NonPositiveRejected ==
    config # None =>
        /\ config.max_missing_count > 0
        /\ config.max_distance > 0
        /\ config.smoothed_vel_window > 0

\* C20: update is all-or-nothing: when a call fails, every per-track map and
\* next_id are what they were before the call.
C20_AllOrNothing ==
    [][(Called /\ last'.error # "none") =>
        /\ next_id' = next_id
        /\ tracked_centroids' = tracked_centroids
        /\ vels' = vels
        /\ smoothed_vels' = smoothed_vels
        /\ smoothed_vel_handlers' = smoothed_vel_handlers
        /\ confidences' = confidences
        /\ rects' = rects
        /\ missing_count' = missing_count]_vars

\* ------------------------------------------------------- claims, continued
\* C21: two tracker instances are independent: an update on one leaves every
\* map and the next_id of the other as they were, and each instance hands out
\* the ids 0, 1, 2, ... in turn whatever the other instance has been given.
C21_InstancesIndependent ==
    [][Called =>
        /\ other'.calls = other.calls + 1 =>
               UNCHANGED << next_id, tracked_centroids, vels, smoothed_vels,
                            smoothed_vel_handlers, confidences, rects, missing_count >>
        /\ other'.calls = other.calls =>
               /\ other'.next_id = other.next_id
               /\ other'.tracked_centroids = other.tracked_centroids
               /\ other'.vels = other.vels
               /\ other'.smoothed_vels = other.smoothed_vels
               /\ other'.smoothed_vel_handlers = other.smoothed_vel_handlers
               /\ other'.confidences = other.confidences
               /\ other'.rects = other.rects
               /\ other'.missing_count = other.missing_count
        /\ \A i \in 1..Len(issued') : issued'[i] = i - 1
        /\ \A i \in 1..Len(other'.issued) : other'.issued[i] = i - 1
        /\ next_id' = Len(issued')
        /\ other'.next_id = Len(other'.issued)]_vars

\* C21 witness: both instances hold tracks under the same id, their counters
\* differ, and one of them has evicted a track
C21_Witness ==
    /\ other # None
    /\ \E id \in Ids : id \in KeySet(other.tracked_centroids)
    /\ next_id > other.next_id
    /\ other.next_id >= 1
    /\ Len(tracked_centroids) < next_id

Ascends(keys) == \A i, j \in 1..Len(keys) : i < j => keys[i] < keys[j]

\* C22: in every map the ids iterate in registration order, that is in
\* strictly ascending order; matching a track or evicting another does not
\* reorder the ids that remain.
C22_AscendingIds ==
    /\ Ascends(Keys(tracked_centroids))
    /\ Ascends(Keys(vels))
    /\ Ascends(Keys(smoothed_vels))
    /\ Ascends(Keys(smoothed_vel_handlers))
    /\ Ascends(Keys(confidences))
    /\ Ascends(Keys(rects))
    /\ Ascends(Keys(missing_count))

\* C22 witness: of three tracks the middle one was evicted by a call that
\* matched the other two
C22_Witness ==
    /\ Keys(tracked_centroids) = <<0, 2>>
    /\ Keys(rects) = <<0, 2>>
    /\ last.deregistered = {1}
    /\ Cardinality(last.pairs) = 2

\* C23: on the matching path an unmatched track is treated as missing
\* (missing_count + 1, confidence - 1, evicted past the threshold) exactly
\* when tracks >= detections; with fewer tracks than detections its
\* missing_count and confidence stay as they were and it is not evicted.
C23_MissingOnlyWhenEnoughTracks ==
    [][(Called /\ last'.path = "match") =>
        \A id \in Ids \ PairedIds :
            IF Len(tracked_centroids) >= Len(last'.rects_in)
            THEN /\ id \notin KeySet(tracked_centroids')
                        <=> GetItem(missing_count, id) + 1 > max_missing_count
                 /\ id \in KeySet(tracked_centroids') =>
                        /\ GetItem(missing_count', id) = GetItem(missing_count, id) + 1
                        /\ GetItem(confidences', id) = GetItem(confidences, id) - 1
            ELSE /\ id \in KeySet(tracked_centroids')
                 /\ GetItem(missing_count', id) = GetItem(missing_count, id)
                 /\ GetItem(confidences', id) = GetItem(confidences, id)]_vars

\* C23 witness: a track already missed once faces two detections it does not
\* match; they are registered and its missing_count is still 1
C23_Witness ==
    /\ last.path = "match"
    /\ Len(last.registered) = 2
    /\ last.pairs = {}
    /\ \E id \in Ids \ Range(last.registered) :
           GetItem(missing_count, id) = 1 /\ GetItem(confidences, id) = -1

\* C24: the assignment of one update is one-to-one: no detection is paired
\* with two tracks and no track with two detections, so there are at most
\* min(tracks, detections) pairs and no confidence rises by more than 2.
C24_OneToOne ==
    [][(Called /\ last'.path = "match") =>
        /\ \A p, q \in last'.pairs : (p[1] = q[1] \/ p[2] = q[2]) => p = q
        /\ Cardinality(last'.pairs) <= Len(tracked_centroids)
        /\ Cardinality(last'.pairs) <= Len(last'.rects_in)
        /\ PairedIds \subseteq Ids
        /\ PairedCols \subseteq 1..Len(last'.rects_in)
        /\ \A id \in Ids \cap KeySet(tracked_centroids') :
               GetItem(confidences', id) <= GetItem(confidences, id) + 2]_vars

\* C24 witness: three tracks and two detections, both paired, the third
\* track left out because its nearest detection was taken
C24_Witness ==
    /\ last.path = "match"
    /\ Len(last.centroid_ids) = 3
    /\ Len(last.rects_in) = 2
    /\ Cardinality(last.pairs) = 2
    /\ \E i, j \in 1..3 : i # j /\ tracked_centroids[i][2] = tracked_centroids[j][2]

\* the rows of D that have column c for nearest detection
Claimants(D, c) == { r \in 1..Len(D) : ArgMin(D)[r] = c }

NearestTo(here, centroids) ==
    CHOOSE c \in 1..Len(centroids) :
        /\ \A j \in 1..Len(centroids) :
               Dist2(here, centroids[c]) <= Dist2(here, centroids[j])
        /\ \A j \in 1..(c - 1) :
               Dist2(here, centroids[c]) < Dist2(here, centroids[j])

\* C26: a track is only ever offered its single nearest detection, the one
\* of lowest index among equally near ones: in every update each track is
\* either paired with that detection or not paired at all, whatever other
\* detections are left over within max_distance.
C26_OnlyNearestOffered ==
    [][(Called /\ last'.path = "match") =>
        \A p \in last'.pairs :
            /\ p[1] \in Ids
            /\ p[2] = NearestTo(GetItem(tracked_centroids, p[1]),
                                last'.input_centroids)]_vars

\* C26 witness: a track left unpaired and counted missing because a closer
\* track took its nearest detection, while another detection of the same call
\* lies within max_distance of it and is paired with nobody
C26_Witness ==
    /\ last.path = "match"
    /\ \E id \in KeySet(tracked_centroids) \cap Range(last.centroid_ids) :
           LET here == GetItem(tracked_centroids, id)
               cols == 1..Len(last.rects_in)
               near == CHOOSE c \in cols : \A j \in cols :
                           Dist2(here, last.input_centroids[c])
                               <= Dist2(here, last.input_centroids[j])
           IN  /\ \A p \in last.pairs : p[1] # id
               /\ \E p \in last.pairs : p[2] = near
               /\ \E c \in cols :
                      /\ c # near
                      /\ \A p \in last.pairs : p[2] # c
                      /\ Dist2(here, last.input_centroids[c]) <= MaxDist2

\* c is s/2 with its fractional part dropped
HalfTowardZero(s, c) ==
    \/ 2 * c = s
    \/ s > 0 /\ 2 * c = s - 1
    \/ s < 0 /\ 2 * c = s + 1

\* C27: the centroid of a detection (x1, y1, x2, y2) is ((x1+x2)/2,
\* (y1+y2)/2) with each fractional part truncated toward zero, and depends on
\* nothing but that box: it is so for every detection of every call, whatever
\* else the call carries and whatever the tracker holds.
C27_CentroidOfBox ==
    /\ Len(last.input_centroids) = Len(last.rects_in)
    /\ \A i \in 1..Len(last.rects_in) :
           /\ Len(last.input_centroids[i]) = 2
           /\ HalfTowardZero(last.rects_in[i][1] + last.rects_in[i][3],
                             last.input_centroids[i][1])
           /\ HalfTowardZero(last.rects_in[i][2] + last.rects_in[i][4],
                             last.input_centroids[i][2])

\* C27 witness: a call on a tracker that holds tracks, with two detections,
\* one whose means are -0.5 and 1.5 and one whose means are both -1.5
C27_Witness ==
    /\ last.path = "match"
    /\ Len(last.rects_in) = 2
    /\ \E i, j \in 1..2 :
           /\ last.rects_in[i] = <<-3, 0, 2, 3>> /\ last.input_centroids[i] = <<0, 1>>
           /\ last.rects_in[j] = <<-3, -3, 0, 0>> /\ last.input_centroids[j] = <<-1, -1>>

\* C28: an update in which a registered track is neither matched nor evicted
\* leaves its centroid, bounding box, velocity, smoothed velocity and the
\* window of its MovingAverage as they were (the last velocity is kept, not
\* zeroed); only its missing_count and confidence may differ.
C28_UnmatchedTrackKeepsState ==
    [][Called =>
        \A id \in (Ids \cap KeySet(tracked_centroids')) \ PairedIds :
            /\ GetItem(tracked_centroids', id) = GetItem(tracked_centroids, id)
            /\ GetItem(rects', id) = GetItem(rects, id)
            /\ GetItem(vels', id) = GetItem(vels, id)
            /\ GetItem(smoothed_vels', id) = GetItem(smoothed_vels, id)
            /\ GetItem(smoothed_vel_handlers', id) = GetItem(smoothed_vel_handlers, id)]_vars

\* C28 witness: a track that has moved (velocity and smoothed velocity not
\* zero, a real bounding box) and was counted missing by the last call
C28_Witness ==
    \E id \in KeySet(tracked_centroids) \cap Range(last.centroid_ids) :
        /\ \A p \in last.pairs : p[1] # id
        /\ GetItem(missing_count, id) = 1
        /\ GetItem(vels, id) # <<0, 0>>
        /\ GetItem(smoothed_vels, id) # <<0, 0>>
        /\ GetItem(rects, id) # <<0, 0, 0, 0>>
        /\ GetItem(smoothed_vel_handlers, id).entry_deque # << <<0, 0>>, <<0, 0>> >>

\* the corner sums of box r are those of a box with centroid c
MidpointIs(r, c) ==
    /\ HalfTowardZero(r[1] + r[3], c[1])
    /\ HalfTowardZero(r[2] + r[4], c[2])

\* C29: the stored bounding box of a track is the rectangle of the detection
\* it was last matched with, and its centroid that rectangle's midpoint; a
\* track never matched since registration holds the placeholder (0, 0, 0, 0),
\* not the box of the detection that made it.  As a step property: after a
\* call a paired track holds the box and midpoint of its detection, a track
\* the call registered holds the placeholder, and every other track holds
\* the box and centroid it held before.
C29_BoxIsLastMatch ==
    [][Called =>
        \A id \in KeySet(tracked_centroids') :
            IF id \in PairedIds
            THEN \E p \in last'.pairs :
                     /\ p[1] = id
                     /\ GetItem(rects', id) = last'.rects_in[p[2]]
                     /\ MidpointIs(last'.rects_in[p[2]], GetItem(tracked_centroids', id))
            ELSE IF id \in Range(last'.registered)
            THEN /\ id \notin Ids
                 /\ GetItem(rects', id) = <<0, 0, 0, 0>>
                 /\ GetItem(rects', id) \notin Range(last'.rects_in)
            ELSE /\ id \in Ids
                 /\ GetItem(rects', id) = GetItem(rects, id)
                 /\ GetItem(tracked_centroids', id) = GetItem(tracked_centroids, id)]_vars

\* C29 witness: of two tracks registered by one call, one has since been
\* matched twice, with different boxes, and holds the later one; the other
\* has not been matched and still holds the placeholder, two calls on
C29_Witness ==
    /\ calls = 4
    /\ \E id, never \in KeySet(rects) :
           /\ GetItem(confidences, id) = 4
           /\ \E p \in last.pairs : p[1] = id /\ GetItem(rects, id) = last.rects_in[p[2]]
           /\ GetItem(vels, id) # <<0, 0>>
           /\ GetItem(confidences, never) < 0
           /\ GetItem(rects, never) = <<0, 0, 0, 0>>
           /\ GetItem(tracked_centroids, never) # <<0, 0>>

\* C30: growth is bounded: from an empty tracker, with at most n >= 1
\* detections in every call (n = MaxDets), there are never more than 2n - 1
\* tracks; and a call with at least as many tracks as detections registers
\* nothing, so that it leaves no track that was not there before.
C30_BoundedGrowth ==
    /\ MaxDets >= 1
    /\ Len(tracked_centroids) <= 2 * MaxDets - 1
    /\ Len(last.rects_in) <= MaxDets
    /\ (last.path \in {"empty", "match"}
            /\ Len(last.centroid_ids) >= Len(last.rects_in))
           => /\ last.registered = << >>
              /\ last.path = "match" => KeySet(tracked_centroids) \subseteq Range(last.centroid_ids)

\* C30 witness: three tracks, after a call with two detections on those
\* three tracks that paired only one of the detections and registered none
C30_Witness ==
    /\ Len(tracked_centroids) = 3
    /\ last.path = "match"
    /\ Len(last.centroid_ids) = 3
    /\ Len(last.rects_in) = 2
    /\ Cardinality(last.pairs) = 1
    /\ last.registered = << >>

\* --------------------------------------------------- claims on ImageIterator
\* C31: an ImageIterator over a non-empty list is a two-way endless cycle:
\* its position is always in 0..len-1 and next() and prev() always return an
\* image; next() from the last image gives the first, prev() from the first
\* gives the last; prev() after next(), and next() after prev(), give the
\* image they set out from; and len(images) next() calls in a row end on the
\* image they set out from.
C31_TwoWayCycle ==
    Len(iterator.images) >= 1 =>
        LET n == Len(iterator.images)
            at == iterator.iter_counter
            t == iter_trace
            stepped == t.op \in {"next", "prev"}
        IN  /\ at \in 0..(n - 1)
            /\ stepped => t.error = "none" /\ t.returned = iterator.images[at + 1]
            /\ (t.op = "next" /\ t.before = n - 1) => at = 0
            /\ (t.op = "prev" /\ t.before = 0) => at = n - 1
            /\ (t.op = "next" /\ t.before < n - 1) => at = t.before + 1
            /\ (t.op = "prev" /\ t.before > 0) => at = t.before - 1
            /\ (t.op = "prev" /\ t.prev_op = "next") => at = t.before2
            /\ (t.op = "next" /\ t.prev_op = "prev") => at = t.before2
            /\ (t.op = "next" /\ t.streak = n) => at = t.origin

\* C31 witness: three next() calls in a row on a list of three images whose
\* first two differ: they set out from the second image, passed the last and
\* the first, and are back on the second
C31_Witness ==
    /\ Len(iterator.images) = 3
    /\ iterator.images[1] # iterator.images[2]
    /\ iter_trace.op = "next"
    /\ iter_trace.prev_op = "next"
    /\ iter_trace.streak = 3
    /\ iter_trace.origin = 1
    /\ iter_trace.before = 0
    /\ iter_trace.before2 = 2
    /\ iterator.iter_counter = 1
    /\ iter_trace.returned = iterator.images[2]

====
